---- MODULE Spec2Model ----
(***************************************************************************)
(* A model of the ability engine of ddlc: Ability, AbilityModifier and     *)
(* AbilityModel (src/src/ability.rs).  Modifiers live in RefCell cells     *)
(* shared through Rc handles; the model keeps one cell per handle.         *)
(***************************************************************************)
EXTENDS Integers, Sequences, FiniteSets, Bags

VARIABLES
    mods,      \* handle -> the AbilityModifier inside that Rc<RefCell<..>>
    models,    \* the AbilityModel values constructed so far
    applied,   \* history: handle -> bags of the amounts passed to apply_*
    stale,     \* history: handles whose populated cache was invalidated and not read since
    last,      \* the last call, its arguments and what it returned
    build      \* the build profile: "debug" checks integer overflow, "release" wraps

vars == <<mods, models, applied, stale, last, build>>

------------------------------------------------------------------------------
(* Bounds of the model *)

MaxApplies == 6
MaxSharedApplies == 1
MaxBiasedApplies == 2
MaxBorder == 3
MaxSd == 4
MaxModels == 2

\* the Rc<RefCell<AbilityModifier>> cells of a world
Handles == {1, 2}

\* Option<T>: None, Some(v)
None == <<>>
Some(v) == <<v>>
IsSome(o) == Len(o) = 1
Unwrap(o) == o[1]

Abs(a) == IF a < 0 THEN -a ELSE a

\* i32: the range, and `+`, `-` and `* 2` with the result wrapped into the range
\* (what a release build computes) and whether the exact result left the range
\* (where a debug build panics).  No intermediate value leaves the range.
I32Max == 2147483647
I32Min == -I32Max - 1

AddOverflows(a, b) == (b > 0 /\ a > I32Max - b) \/ (b < 0 /\ a < I32Min - b)
SubOverflows(a, b) == (b < 0 /\ a > I32Max + b) \/ (b > 0 /\ a < I32Min + b)

wrapping_add(a, b) ==
    IF b > 0 /\ a > I32Max - b THEN (a + I32Min) + (b + I32Min)
    ELSE IF b < 0 /\ a < I32Min - b THEN (a - I32Min) + (b - I32Min)
    ELSE a + b

wrapping_sub(a, b) ==
    IF b < 0 /\ a > I32Max + b THEN (a + I32Min) - (b - I32Min)
    ELSE IF b > 0 /\ a < I32Min + b THEN (a - I32Min) - (b + I32Min)
    ELSE a - b

i32_add(a, b) == [val |-> wrapping_add(a, b), overflow |-> AddOverflows(a, b)]
i32_sub(a, b) == [val |-> wrapping_sub(a, b), overflow |-> SubOverflows(a, b)]
i32_double(a) == i32_add(a, a)

\* a debug build panics where the arithmetic overflows
OverflowPanics(overflow) == overflow /\ build = "debug"

\* The abilities the modifiers are built from, one tuple per initial world.
Ability(kind, v) == [kind |-> kind, value |-> v]

AbilityWorlds ==
    { <<Ability("Stamina", 100), Ability("Intelligence", 300)>>,
      <<Ability("Strength", 101), Ability("Stamina", 100)>>,
      <<Ability("Luck", -101), Ability("Dexterity", 100)>> }

\* The world of tests::biased_ability
BiasedWorlds == { <<Ability("Stamina", 100), Ability("Endurement", 160)>> }

\* Amounts for the single-modifier specification (tests::multiple_modifier)
PositiveAmounts == {-40, 30, 40, 50}
NegativeAmounts == {-60, -50, -40, 60}
\* Amounts for the shared-modifier specification (tests::biased_ability)
SharedPositive == {60}
SharedNegative == {60}

------------------------------------------------------------------------------
(* Ability and AbilityModifier *)

Ability_value(ability) == ability.value

From(ability) ==
    [ ability |-> ability,
      modifier_positive |-> <<0, 0>>,
      modifier_negative |-> <<0, 0>>,
      current |-> None ]

\* faulty variants of apply_positive, against which the properties are tested
apply_positive_keeps_cache(self, modifier) ==
    IF modifier >= self.modifier_positive[1]
    THEN [self EXCEPT !.modifier_positive = <<modifier, self.modifier_positive[1]>>]
    ELSE IF modifier >= self.modifier_positive[2]
    THEN [self EXCEPT !.modifier_positive = <<self.modifier_positive[1], modifier>>,
                      !.current = None]
    ELSE self

apply_positive_drops_top(self, modifier) ==
    IF modifier >= self.modifier_positive[1]
    THEN [self EXCEPT !.modifier_positive = <<modifier, self.modifier_positive[2]>>,
                      !.current = None]
    ELSE IF modifier >= self.modifier_positive[2]
    THEN [self EXCEPT !.modifier_positive = <<self.modifier_positive[1], modifier>>,
                      !.current = None]
    ELSE self

apply_positive_strict(self, modifier) ==
    IF modifier > self.modifier_positive[1]
    THEN [self EXCEPT !.modifier_positive = <<modifier, self.modifier_positive[1]>>,
                      !.current = None]
    ELSE IF modifier > self.modifier_positive[2]
    THEN [self EXCEPT !.modifier_positive = <<self.modifier_positive[1], modifier>>,
                      !.current = None]
    ELSE self

apply_positive_always_invalidates(self, modifier) ==
    IF modifier >= self.modifier_positive[1]
    THEN [self EXCEPT !.modifier_positive = <<modifier, self.modifier_positive[1]>>,
                      !.current = None]
    ELSE IF modifier >= self.modifier_positive[2]
    THEN [self EXCEPT !.modifier_positive = <<self.modifier_positive[1], modifier>>,
                      !.current = None]
    ELSE [self EXCEPT !.current = None]

apply_positive(self, modifier) ==
    IF modifier >= self.modifier_positive[1]
    THEN [self EXCEPT !.modifier_positive = <<modifier, self.modifier_positive[1]>>,
                      !.current = None]
    ELSE IF modifier >= self.modifier_positive[2]
    THEN [self EXCEPT !.modifier_positive = <<self.modifier_positive[1], modifier>>,
                      !.current = None]
    ELSE self

\* faulty variants of apply_negative
apply_negative_no_normalize(self, modifier) ==
    IF modifier <= self.modifier_negative[1]
    THEN [self EXCEPT !.modifier_negative = <<modifier, self.modifier_negative[1]>>,
                      !.current = None]
    ELSE IF modifier <= self.modifier_negative[2]
    THEN [self EXCEPT !.modifier_negative = <<self.modifier_negative[1], modifier>>,
                      !.current = None]
    ELSE self

apply_negative_drops_second(self, modifier) ==
    LET m == IF modifier > 0 THEN (-1) * modifier ELSE modifier IN
    IF m <= self.modifier_negative[1]
    THEN [self EXCEPT !.modifier_negative = <<m, self.modifier_negative[1]>>,
                      !.current = None]
    ELSE self

\* faulty variant of apply_negative: the first branch writes the positive slots
apply_negative_writes_positive(self, modifier) ==
    LET m == IF modifier > 0 THEN (-1) * modifier ELSE modifier IN
    IF m <= self.modifier_negative[1]
    THEN [self EXCEPT !.modifier_positive = <<m, self.modifier_negative[1]>>,
                      !.current = None]
    ELSE IF m <= self.modifier_negative[2]
    THEN [self EXCEPT !.modifier_negative = <<self.modifier_negative[1], m>>,
                      !.current = None]
    ELSE self

apply_negative(self, modifier) ==
    LET m == IF modifier > 0 THEN (-1) * modifier ELSE modifier IN
    IF m <= self.modifier_negative[1]
    THEN [self EXCEPT !.modifier_negative = <<m, self.modifier_negative[1]>>,
                      !.current = None]
    ELSE IF m <= self.modifier_negative[2]
    THEN [self EXCEPT !.modifier_negative = <<self.modifier_negative[1], m>>,
                      !.current = None]
    ELSE self

\* the sums of the two slot arrays and the base value of AbilityModifier::value
SlotSums(self) ==
    [base |-> Ability_value(self.ability),
     pos |-> i32_add(self.modifier_positive[1], self.modifier_positive[2]),
     neg |-> i32_add(self.modifier_negative[1], self.modifier_negative[2])]

\* base + pos + neg, added left to right
Sum2(sums, s1) ==
    [s1 |-> s1, val |-> i32_add(s1.val, sums.neg.val),
     overflow |-> sums.pos.overflow \/ sums.neg.overflow \/ s1.overflow]

Sum3(sums) == Sum2(sums, i32_add(sums.base, sums.pos.val))

\* the end of AbilityModifier::value on the path that computes: the total is
\* cached and returned, unless adding panicked
Recomputed(self, sum) ==
    IF OverflowPanics(sum.overflow \/ sum.val.overflow)
    THEN [self |-> self, panic |-> TRUE, overflow |-> TRUE]
    ELSE [self |-> [self EXCEPT !.current = Some(sum.val.val)], val |-> sum.val.val,
          panic |-> FALSE, overflow |-> sum.overflow \/ sum.val.overflow]

\* faulty variant of AbilityModifier_value: a hit takes the cached total out
AbilityModifier_value_takes_cache(self) ==
    IF IsSome(self.current)
    THEN [self |-> [self EXCEPT !.current = None], val |-> Unwrap(self.current),
          panic |-> FALSE, overflow |-> FALSE]
    ELSE Recomputed(self, Sum3(SlotSums(self)))

\* AbilityModifier::value: the modifier after the call and the value returned,
\* or a panic ("attempt to add with overflow") that returns nothing and caches
\* nothing
AbilityModifier_value(self) ==
    IF IsSome(self.current)
    THEN [self |-> self, val |-> Unwrap(self.current),
          panic |-> FALSE, overflow |-> FALSE]
    ELSE Recomputed(self, Sum3(SlotSums(self)))

------------------------------------------------------------------------------
(* AbilityModel *)

ModelTypes == {"Equal", "WeigthedOnPrior", "Single"}

\* Result<T, E>
Ok(v) == [ok |-> TRUE, val |-> v]
Err(e) == [ok |-> FALSE, err |-> e]

\* what a call gives its caller: a value, or a panic unwinding through it
Returned(v) == [panic |-> FALSE, val |-> v]
Panicked(msg) == [panic |-> TRUE, msg |-> msg]

\* i32 `/`: the quotient rounded toward zero (the divisors here are 2 and 3;
\* -a is never formed, as -i32::MIN is outside the range)
i32_div(a, b) ==
    LET d == Abs(b)
        q == IF a >= 0 THEN a \div d
             ELSE (a \div d) + (IF a % d = 0 THEN 0 ELSE 1)
    IN IF b > 0 THEN q ELSE -q

\* faulty variant of AbilityModel_new: no validation
AbilityModel_new_unchecked(model_type, ability1, ability2) ==
    Ok([model_type |-> model_type, ability1 |-> ability1, ability2 |-> ability2])

\* ability1 is a handle, ability2 an Option of a handle
AbilityModel_new(model_type, ability1, ability2) ==
    IF model_type = "Single"
    THEN Ok([model_type |-> model_type, ability1 |-> ability1, ability2 |-> ability2])
    ELSE IF ability2 = None
         THEN Err(model_type)
         ELSE Ok([model_type |-> model_type, ability1 |-> ability1,
                  ability2 |-> ability2])

\* faulty variant of Blend: the weight on the second modifier
Blend_weight_on_second(model_type, v1, v2) ==
    IF model_type = "Equal" THEN i32_div(i32_add(v1, v2).val, 2)
    ELSE i32_div(i32_add(v1, i32_double(v2).val).val, 3)

\* faulty variant of Blend: floor division
Blend_floor(model_type, v1, v2) ==
    IF model_type = "Equal" THEN i32_add(v1, v2).val \div 2
    ELSE i32_add(i32_double(v1).val, v2).val \div 3

\* the arithmetic of the Equal and WeigthedOnPrior arms of AbilityModel::value
Blend(model_type, v1, v2) ==
    IF model_type = "Equal" THEN i32_div(i32_add(v1, v2).val, 2)
    ELSE i32_div(i32_add(i32_double(v1).val, v2).val, 3)

\* the panics of overflow-checked arithmetic
AddOverflow == "attempt to add with overflow"
SubOverflow == "attempt to subtract with overflow"
MulOverflow == "attempt to multiply with overflow"

\* the end of the Equal and WeigthedOnPrior arms: ability2's value() gave r2
\* on the cells c1, and `left` is the left operand of the `+`
AbilityModel_value_sum(self, c1, r1, left, r2, sum) ==
    IF r2.panic
    THEN [cells |-> c1, read |-> {self.ability1},
          ret |-> Panicked(AddOverflow), overflow |-> TRUE]
    ELSE IF OverflowPanics(sum.overflow)
    THEN [cells |-> [c1 EXCEPT ![Unwrap(self.ability2)] = r2.self],
          read |-> {self.ability1, Unwrap(self.ability2)},
          ret |-> Panicked(AddOverflow), overflow |-> TRUE]
    ELSE [cells |-> [c1 EXCEPT ![Unwrap(self.ability2)] = r2.self],
          read |-> {self.ability1, Unwrap(self.ability2)},
          ret |-> Returned(Blend(self.model_type, r1.val, r2.val)),
          overflow |-> r1.overflow \/ left.overflow \/ r2.overflow \/ sum.overflow]

AbilityModel_value_second(self, c1, r1, left, r2) ==
    AbilityModel_value_sum(self, c1, r1, left, r2,
        IF r2.panic THEN left ELSE i32_add(left.val, r2.val))

\* the Equal and WeigthedOnPrior arms after the left operand: value() in Equal,
\* value() * 2 in WeigthedOnPrior
AbilityModel_value_left(self, c1, r1, left) ==
    IF OverflowPanics(left.overflow)
    THEN [cells |-> c1, read |-> {self.ability1},
          ret |-> Panicked(MulOverflow), overflow |-> TRUE]
    ELSE IF self.ability2 = None
    THEN [cells |-> c1, read |-> {self.ability1},
          ret |-> Panicked("ability2 should exist"),
          overflow |-> r1.overflow \/ left.overflow]
    ELSE IF Unwrap(self.ability2) \in {self.ability1}
    THEN [cells |-> c1, read |-> {self.ability1},
          ret |-> Panicked("already borrowed: BorrowMutError"),
          overflow |-> r1.overflow \/ left.overflow]
    ELSE AbilityModel_value_second(self, c1, r1, left,
             AbilityModifier_value(c1[Unwrap(self.ability2)]))

\* AbilityModel::value after ability1's value() gave r1
AbilityModel_value_first(self, cells, r1) ==
    IF r1.panic
    THEN [cells |-> cells, read |-> {}, ret |-> Panicked(AddOverflow),
          overflow |-> TRUE]
    ELSE IF self.model_type = "Single"
    THEN [cells |-> [cells EXCEPT ![self.ability1] = r1.self],
          read |-> {self.ability1}, ret |-> Returned(r1.val),
          overflow |-> r1.overflow]
    ELSE AbilityModel_value_left(self, [cells EXCEPT ![self.ability1] = r1.self], r1,
             IF self.model_type = "Equal"
             THEN [val |-> r1.val, overflow |-> FALSE]
             ELSE i32_double(r1.val))

\* AbilityModel::value on the cells `cells`: the cells after the call, the
\* handles whose value() ran, and what the call gave.  The RefMut that
\* ability1.borrow_mut() returns is a temporary of the arm's expression, so
\* ability1's cell is still mutably borrowed when ability2.borrow_mut() runs:
\* RefCell::borrow_mut panics on a cell that is already borrowed.
AbilityModel_value(self, cells) ==
    AbilityModel_value_first(self, cells, AbilityModifier_value(cells[self.ability1]))

------------------------------------------------------------------------------
(* SkillEffect (src/src/skill.rs).  An f32 is modelled by the exact rational *)
(* <<numerator, denominator>> in lowest terms, denominator > 0.             *)

RECURSIVE Gcd(_, _)
Gcd(a, b) == IF b = 0 THEN a ELSE Gcd(b, a % b)

Rational(n, d) ==
    LET g == Gcd(Abs(n), Abs(d))
        s == IF d < 0 THEN -1 ELSE 1
    IN <<(s * n) \div g, (s * d) \div g>>

f32(i) == <<i, 1>>
f32_add(x, y) == Rational(x[1] * y[2] + y[1] * x[2], x[2] * y[2])
f32_sub(x, y) == Rational(x[1] * y[2] - y[1] * x[2], x[2] * y[2])
f32_mul(x, y) == Rational(x[1] * y[1], x[2] * y[2])
f32_div(x, y) == Rational(x[1] * y[2], x[2] * y[1])
f32_le(x, y) == x[1] * y[2] <= y[1] * x[2]

SkillEffect_new(name, min, max, border) ==
    [name |-> name, min |-> min, max |-> max, border |-> border]

new_damage(name, min, border) ==
    SkillEffect_new(name, min, f32_mul(min, f32(5)), border)

new_recover(name, min, border) ==
    SkillEffect_new(name, min, f32_mul(min, f32(3)), border)

\* faulty variant of cause_damage: the low saturation gives min, as cause_effect does
cause_damage_floor_min(self, sd, border_factor) ==
    LET min_threshold == f32_mul(f32_mul(f32(-1), f32(self.border)), border_factor)
    IN  IF sd >= self.border THEN self.max
        ELSE IF f32_le(f32(sd), min_threshold) THEN self.min
        ELSE IF sd >= 0
        THEN f32_add(self.min,
                     f32_mul(f32_div(f32_sub(self.max, self.min), f32(self.border)),
                             f32(sd)))
        ELSE f32_add(f32(1),
                     f32_mul(f32_div(f32_sub(self.min, f32(1)), min_threshold),
                             f32(sd)))

\* faulty variant of cause_damage: the low saturation is tested first
cause_damage_floor_first(self, sd, border_factor) ==
    LET min_threshold == f32_mul(f32_mul(f32(-1), f32(self.border)), border_factor)
    IN  IF f32_le(f32(sd), min_threshold) THEN f32(1)
        ELSE IF sd >= self.border THEN self.max
        ELSE IF sd >= 0
        THEN f32_add(self.min,
                     f32_mul(f32_div(f32_sub(self.max, self.min), f32(self.border)),
                             f32(sd)))
        ELSE f32_add(f32(1),
                     f32_mul(f32_div(f32_sub(self.min, f32(1)), min_threshold),
                             f32(sd)))

\* faulty variant of cause_damage: the low segment divides by border, as the
\* segment above it does
cause_damage_low_by_border(self, sd, border_factor) ==
    LET min_threshold == f32_mul(f32_mul(f32(-1), f32(self.border)), border_factor)
    IN  IF sd >= self.border THEN self.max
        ELSE IF f32_le(f32(sd), min_threshold) THEN f32(1)
        ELSE IF sd >= 0
        THEN f32_add(self.min,
                     f32_mul(f32_div(f32_sub(self.max, self.min), f32(self.border)),
                             f32(sd)))
        ELSE f32_add(f32(1),
                     f32_mul(f32_div(f32_sub(self.min, f32(1)), f32(self.border)),
                             f32(sd)))

cause_damage(self, sd, border_factor) ==
    LET min_threshold == f32_mul(f32_mul(f32(-1), f32(self.border)), border_factor)
    IN  IF sd >= self.border THEN self.max
        ELSE IF f32_le(f32(sd), min_threshold) THEN f32(1)
        ELSE IF sd >= 0
        THEN f32_add(self.min,
                     f32_mul(f32_div(f32_sub(self.max, self.min), f32(self.border)),
                             f32(sd)))
        ELSE f32_add(f32(1),
                     f32_mul(f32_div(f32_sub(self.min, f32(1)), min_threshold),
                             f32(sd)))

cause_effect(self, sd) ==
    IF sd >= self.border THEN self.max
    ELSE IF sd <= 0 THEN self.min
    ELSE f32_add(self.min,
                 f32_mul(f32_div(f32_sub(self.max, self.min), f32(self.border)),
                         f32(sd)))

\* attacker_model.value() gave a and defender_model.value() gave d
Subtract(a, d, diff) ==
    IF d.ret.panic
    THEN [cells |-> d.cells, read |-> a.read \cup d.read, ret |-> d.ret,
          overflow |-> a.overflow \/ d.overflow]
    ELSE [cells |-> d.cells, read |-> a.read \cup d.read,
          ret |-> IF OverflowPanics(diff.overflow)
                  THEN Panicked(SubOverflow) ELSE Returned(diff.val),
          overflow |-> a.overflow \/ d.overflow \/ diff.overflow]

ScoreDifference_defender(a, d) ==
    Subtract(a, d, IF d.ret.panic THEN d.ret ELSE i32_sub(a.ret.val, d.ret.val))

ScoreDifference_attacker(a, defender_model) ==
    IF a.ret.panic THEN a
    ELSE ScoreDifference_defender(a, AbilityModel_value(defender_model, a.cells))

\* attacker_model.value() - defender_model.value(), the left operand first
ScoreDifference(attacker_model, defender_model, cells) ==
    ScoreDifference_attacker(AbilityModel_value(attacker_model, cells), defender_model)

\* a curve applied to the score difference, when there is one
OnScoreDifference(sd, ret) ==
    IF sd.ret.panic THEN sd ELSE [sd EXCEPT !.ret = ret]

cause_damage_on(self, sd, border_factor) ==
    OnScoreDifference(sd, IF sd.ret.panic THEN sd.ret
                          ELSE Returned(cause_damage(self, sd.ret.val, border_factor)))

cause_effect_on(self, sd) ==
    OnScoreDifference(sd, IF sd.ret.panic THEN sd.ret
                          ELSE Returned(cause_effect(self, sd.ret.val)))

damage_from_enemy(self, attacker_model, defender_model, cells) ==
    cause_damage_on(self, ScoreDifference(attacker_model, defender_model, cells),
                    <<1, 2>>)

damage_to_enemy(self, attacker_model, defender_model, cells) ==
    cause_damage_on(self, ScoreDifference(attacker_model, defender_model, cells),
                    <<1, 1>>)

effect_attack(self, attacker_model, defender_model, cells) ==
    cause_effect_on(self, ScoreDifference(attacker_model, defender_model, cells))

\* the effects of the worlds: tests::cause_damage
Effects == { new_damage("damage1", f32(2000), 150) }

------------------------------------------------------------------------------
(* History of the apply_* calls *)

NoHistory == [pos |-> EmptyBag, neg |-> EmptyBag]

AppliedCount(h) == BagCardinality(applied[h].pos) + BagCardinality(applied[h].neg)

RECURSIVE SumApplied(_)
SumApplied(hs) ==
    IF hs = {} THEN 0
    ELSE LET h == CHOOSE x \in hs : TRUE
         IN AppliedCount(h) + SumApplied(hs \ {h})

TotalApplied == SumApplied(Handles)

\* a populated cache that the call invalidated is stale-prone until the next read
StaleAfterApply(h, after) ==
    IF IsSome(mods[h].current) /\ ~IsSome(after.current)
    THEN stale \cup {h} ELSE stale

------------------------------------------------------------------------------
(* Calls on a modifier through its handle: handle.borrow_mut().f(..) *)

BuildProfiles == {"debug", "release"}

\* the modifiers of one of `worlds`, each built by From, and nothing called yet,
\* in a build of one of `builds`
InitBuild(worlds, builds) ==
    /\ \E w \in worlds : mods = [h \in Handles |-> From(w[h])]
    /\ models = {}
    /\ applied = [h \in Handles |-> NoHistory]
    /\ stale = {}
    /\ last = [op |-> "init"]
    /\ build \in builds

\* the worlds of the tests, in the build `cargo test` makes
InitWorld(worlds) == InitBuild(worlds, {"debug"})

Init == InitWorld(AbilityWorlds)

ApplyPositive(h, a) ==
    /\ TotalApplied < MaxApplies
    /\ LET after == apply_positive(mods[h], a) IN
        /\ mods' = [mods EXCEPT ![h] = after]
        /\ stale' = StaleAfterApply(h, after)
        /\ last' = [op |-> "apply_positive", h |-> h, arg |-> a, pre |-> mods[h]]
    /\ applied' = [applied EXCEPT ![h].pos = @ (+) SetToBag({a})]
    /\ UNCHANGED <<models, build>>

ApplyNegative(h, a) ==
    /\ TotalApplied < MaxApplies
    /\ LET after == apply_negative(mods[h], a) IN
        /\ mods' = [mods EXCEPT ![h] = after]
        /\ stale' = StaleAfterApply(h, after)
        /\ last' = [op |-> "apply_negative", h |-> h, arg |-> a, pre |-> mods[h]]
    /\ applied' = [applied EXCEPT ![h].neg = @ (+) SetToBag({a})]
    /\ UNCHANGED <<models, build>>

Value(h) ==
    /\ LET r == AbilityModifier_value(mods[h]) IN
        /\ mods' = [mods EXCEPT ![h] = r.self]
        /\ last' = IF r.panic
                   THEN [op |-> "value", h |-> h, pre |-> mods[h],
                         panic |-> TRUE, overflow |-> TRUE]
                   ELSE [op |-> "value", h |-> h, pre |-> mods[h], val |-> r.val,
                         wasStale |-> h \in stale,
                         again |-> (last.op = "value" /\ last.h = h),
                         panic |-> FALSE, overflow |-> r.overflow]
        /\ stale' = IF r.panic THEN stale ELSE stale \ {h}
    /\ UNCHANGED <<models, applied, build>>

------------------------------------------------------------------------------
(* One modifier, driven as in tests::multiple_modifier *)

ModifierNext ==
    \/ \E a \in PositiveAmounts : ApplyPositive(1, a)
    \/ \E a \in NegativeAmounts : ApplyNegative(1, a)
    \/ Value(1)

SpecModifier == Init /\ [][ModifierNext]_vars

------------------------------------------------------------------------------
(* Shared modifiers under models, driven as in tests::biased_ability and   *)
(* tests::cause_damage                                                      *)

OptionalHandles == {None} \cup {Some(h) : h \in Handles}

NewModel(model_type, ability1, ability2) ==
    /\ Cardinality(models) < MaxModels
    /\ LET r == AbilityModel_new(model_type, ability1, ability2) IN
        /\ models' = IF r.ok THEN models \cup {r.val} ELSE models
        /\ last' = [op |-> "new", model_type |-> model_type, ability1 |-> ability1,
                    ability2 |-> ability2, ret |-> r]
    /\ UNCHANGED <<mods, applied, stale, build>>

ModelValue(k) ==
    /\ LET r == AbilityModel_value(k, mods) IN
        /\ mods' = r.cells
        /\ stale' = stale \ r.read
        /\ last' = [op |-> "model_value", model |-> k,
                    staleRead |-> stale \cap r.read, ret |-> r.ret,
                    overflow |-> r.overflow]
    /\ UNCHANGED <<models, applied, build>>

DamageFromEnemy(e, attacker_model, defender_model) ==
    /\ LET r == damage_from_enemy(e, attacker_model, defender_model, mods) IN
        /\ mods' = r.cells
        /\ stale' = stale \ r.read
        /\ last' = [op |-> "damage_from_enemy", effect |-> e,
                    attacker_model |-> attacker_model,
                    defender_model |-> defender_model, ret |-> r.ret,
                    overflow |-> r.overflow]
    /\ UNCHANGED <<models, applied, build>>

DamageToEnemy(e, attacker_model, defender_model) ==
    /\ LET r == damage_to_enemy(e, attacker_model, defender_model, mods) IN
        /\ mods' = r.cells
        /\ stale' = stale \ r.read
        /\ last' = [op |-> "damage_to_enemy", effect |-> e,
                    attacker_model |-> attacker_model,
                    defender_model |-> defender_model, ret |-> r.ret,
                    overflow |-> r.overflow]
    /\ UNCHANGED <<models, applied, build>>

Next ==
    \/ \E h \in Handles, a \in SharedPositive :
          TotalApplied < MaxSharedApplies /\ ApplyPositive(h, a)
    \/ \E h \in Handles, a \in SharedNegative :
          TotalApplied < MaxSharedApplies /\ ApplyNegative(h, a)
    \/ \E h \in Handles : Value(h)
    \/ \E t \in ModelTypes, a1 \in Handles, a2 \in OptionalHandles : NewModel(t, a1, a2)
    \/ \E k \in models : ModelValue(k)

Spec == Init /\ [][Next]_vars

\* the same world with the damage entry points of SkillEffect
DamageNext ==
    \/ Next
    \/ \E e \in Effects, k1 \in models, k2 \in models : DamageFromEnemy(e, k1, k2)
    \/ \E e \in Effects, k1 \in models, k2 \in models : DamageToEnemy(e, k1, k2)

SpecDamage == Init /\ [][DamageNext]_vars

\* tests::biased_ability: Stamina(100) and Endurement(160) under models, with
\* room for the two apply_* calls of the test
BiasedNext ==
    \/ \E h \in Handles, a \in SharedPositive :
          TotalApplied < MaxBiasedApplies /\ ApplyPositive(h, a)
    \/ \E h \in Handles, a \in SharedNegative :
          TotalApplied < MaxBiasedApplies /\ ApplyNegative(h, a)
    \/ \E h \in Handles : Value(h)
    \/ \E t \in ModelTypes, a1 \in Handles, a2 \in OptionalHandles : NewModel(t, a1, a2)
    \/ \E k \in models : ModelValue(k)

SpecBiased == InitWorld(BiasedWorlds) /\ [][BiasedNext]_vars

------------------------------------------------------------------------------
(* The curves of SkillEffect as functions of the effect and of sd *)

\* the f32 values given as min and max
CurveValues == { f32(0), <<1, 2>>, f32(1), f32(2), f32(2000) }
Borders == (-MaxBorder)..MaxBorder
ScoreDifferences == (-MaxSd)..MaxSd

\* border_factor of damage_from_enemy and of damage_to_enemy
BorderFactors == { <<1, 2>>, <<1, 1>> }

\* every effect SkillEffect::new, new_damage and new_recover give on these values
CurveEffects ==
    { SkillEffect_new("effect", mn, mx, b) :
          mn \in CurveValues, mx \in CurveValues, b \in Borders }
    \cup { new_damage("damage", mn, b) : mn \in CurveValues, b \in Borders }
    \cup { new_recover("recover", mn, b) : mn \in CurveValues, b \in Borders }

CauseDamage(e, sd, border_factor) ==
    /\ last' = [op |-> "cause_damage", effect |-> e, sd |-> sd,
                border_factor |-> border_factor,
                ret |-> cause_damage(e, sd, border_factor)]
    /\ UNCHANGED <<mods, models, applied, stale, build>>

CauseEffect(e, sd) ==
    /\ last' = [op |-> "cause_effect", effect |-> e, sd |-> sd,
                ret |-> cause_effect(e, sd)]
    /\ UNCHANGED <<mods, models, applied, stale, build>>

\* one evaluation of a curve per behaviour: the curves read and write no state
CurveNext ==
    \/ \E e \in CurveEffects, sd \in ScoreDifferences, f \in BorderFactors :
          last.op = "init" /\ CauseDamage(e, sd, f)
    \/ \E e \in CurveEffects, sd \in ScoreDifferences :
          last.op = "init" /\ CauseEffect(e, sd)

SpecCurve == InitWorld(BiasedWorlds) /\ [][CurveNext]_vars

------------------------------------------------------------------------------
(* Abilities at the ends of the i32 range, in either build *)

\* Ability wraps any i32, and From and AbilityModel::new accept any Ability
OverflowWorlds ==
    { <<Ability("Strength", I32Max), Ability("Stamina", I32Max)>>,
      <<Ability("Luck", I32Max), Ability("Dexterity", I32Min)>> }

EffectAttack(e, attacker_model, defender_model) ==
    /\ LET r == effect_attack(e, attacker_model, defender_model, mods) IN
        /\ mods' = r.cells
        /\ stale' = stale \ r.read
        /\ last' = [op |-> "effect_attack", effect |-> e,
                    attacker_model |-> attacker_model,
                    defender_model |-> defender_model, ret |-> r.ret,
                    overflow |-> r.overflow]
    /\ UNCHANGED <<models, applied, build>>

OverflowNext ==
    \/ DamageNext
    \/ \E e \in Effects, k1 \in models, k2 \in models : EffectAttack(e, k1, k2)

SpecOverflow == InitBuild(OverflowWorlds, BuildProfiles) /\ [][OverflowNext]_vars

------------------------------------------------------------------------------
(* Properties of one AbilityModifier *)

\* base + sum(modifier_positive) + sum(modifier_negative), from the slots as they are
Total(m) ==
    m.ability.value + m.modifier_positive[1] + m.modifier_positive[2]
                    + m.modifier_negative[1] + m.modifier_negative[2]

MaxOf(S) == CHOOSE x \in S : \A y \in S : y <= x
MinOf(S) == CHOOSE x \in S : \A y \in S : x <= y
TwoZeros == [x \in {0} |-> 2]

\* the two largest elements of a bag with at least two elements, largest first
LargestTwo(B) ==
    LET m1 == MaxOf(BagToSet(B))
        rest == B (-) SetToBag({m1})
    IN <<m1, MaxOf(BagToSet(rest))>>

\* the two smallest elements of a bag with at least two elements, smallest first
SmallestTwo(B) ==
    LET m1 == MinOf(BagToSet(B))
        rest == B (-) SetToBag({m1})
    IN <<m1, MinOf(BagToSet(rest))>>

Copies(B, x) == IF x \in DOMAIN B THEN B[x] ELSE 0

\* the bag of -|a| for the amounts a of bag B
SignNormalized(B) ==
    [x \in {-Abs(a) : a \in DOMAIN B} |->
        Copies(B, x) + (IF x # 0 THEN Copies(B, -x) ELSE 0)]

\* C1: a cached total is the total of the slots as they are now, and value()
\* returns that total: no stale total is kept or returned after a slot changed.
C1_CacheCoherent ==
    /\ \A h \in Handles :
          IsSome(mods[h].current) => Unwrap(mods[h].current) = Total(mods[h])
    /\ last.op = "value" => last.val = Total(mods[last.h])

\* value() recomputed a total whose cached predecessor an apply_* had invalidated
C1_Witness ==
    /\ last.op = "value"
    /\ last.wasStale
    /\ ~IsSome(last.pre.current)
    /\ mods[last.h].current = Some(last.val)

\* C6: modifier_positive holds the two largest elements of {0, 0} plus every
\* amount passed to apply_positive so far, largest first, both >= 0; base 100
\* with +30, +50, +40 gives slots (50, 40) and total 190.
C6_TwoLargestPositive ==
    \A h \in Handles :
        LET p == mods[h].modifier_positive IN
        /\ p = LargestTwo(applied[h].pos (+) TwoZeros)
        /\ p[1] >= p[2] /\ p[2] >= 0
        /\ ( /\ mods[h].ability.value = 100
             /\ applied[h].pos = SetToBag({30, 40, 50})
             /\ applied[h].neg = EmptyBag )
           => p = <<50, 40>> /\ AbilityModifier_value(mods[h]).val = 190

C6_Witness ==
    /\ last.op = "apply_positive" /\ last.arg = 40
    /\ last.pre.modifier_positive = <<50, 30>>
    /\ mods[1].ability.value = 100
    /\ applied[1].pos = SetToBag({30, 40, 50})
    /\ applied[1].neg = EmptyBag
    /\ mods[1].modifier_positive = <<50, 40>>

\* C7: modifier_negative holds the two most negative elements of {0, 0} plus
\* every sign-normalized amount passed to apply_negative so far, most negative
\* first, both <= 0; -40, -50, -60 on a modifier at 190 leave (-60, -50) and 80.
C7_TwoMostNegative ==
    \A h \in Handles :
        LET n == mods[h].modifier_negative IN
        /\ n = SmallestTwo(SignNormalized(applied[h].neg) (+) TwoZeros)
        /\ n[1] <= n[2] /\ n[2] <= 0
        /\ ( /\ mods[h].ability.value = 100
             /\ applied[h].pos = SetToBag({30, 40, 50})
             /\ applied[h].neg = SetToBag({-40, -50, -60}) )
           => n = <<-60, -50>> /\ AbilityModifier_value(mods[h]).val = 80

C7_Witness ==
    /\ last.op = "value" /\ last.h = 1 /\ last.val = 80
    /\ ~IsSome(last.pre.current)
    /\ mods[1].ability.value = 100
    /\ applied[1].pos = SetToBag({30, 40, 50})
    /\ applied[1].neg = SetToBag({-40, -50, -60})
    /\ mods[1].modifier_negative = <<-60, -50>>

\* C8: from every modifier state, apply_negative(a) and apply_negative(-a) give
\* the same modifier (slots and cache), and the call made gave what the
\* opposite sign would have given.
C8_SignSymmetry ==
    /\ \A h \in Handles : \A a \in NegativeAmounts :
          apply_negative(mods[h], a) = apply_negative(mods[h], -a)
    /\ last.op = "apply_negative" =>
          mods[last.h] = apply_negative(last.pre, -last.arg)

\* a positive amount was passed to apply_negative and entered a slot
C8_Witness ==
    /\ last.op = "apply_negative"
    /\ last.arg > 0
    /\ mods[last.h].modifier_negative # last.pre.modifier_negative
    /\ -last.arg \in {mods[last.h].modifier_negative[1], mods[last.h].modifier_negative[2]}

\* C9 as stated: an amount equal to the value of a slot replaces that slot and
\* the other slot keeps its value.
C9_TieKeepsOtherSlot ==
    /\ last.op = "apply_positive" =>
        LET p == last.pre.modifier_positive
            q == mods[last.h].modifier_positive IN
        /\ last.arg = p[1] => q[1] = last.arg /\ q[2] = p[2]
        /\ (last.arg = p[2] /\ last.arg # p[1]) => q[2] = last.arg /\ q[1] = p[1]
    /\ last.op = "apply_negative" =>
        LET p == last.pre.modifier_negative
            q == mods[last.h].modifier_negative
            m == -Abs(last.arg) IN
        /\ m = p[1] => q[1] = m /\ q[2] = p[2]
        /\ (m = p[2] /\ m # p[1]) => q[2] = m /\ q[1] = p[1]

\* C9 amended: an amount equal to slot 0 takes slot 0 and bumps the old slot-0
\* value into slot 1 (the old slot-1 value is discarded); an amount equal to
\* slot 1 only replaces slot 1 and slot 0 keeps its value; either way the
\* cache is invalidated.  Mirrored for apply_negative.
C9_TieBreak ==
    /\ last.op = "apply_positive" =>
        LET p == last.pre.modifier_positive
            q == mods[last.h].modifier_positive IN
        /\ last.arg = p[1] =>
              q = <<last.arg, p[1]>> /\ mods[last.h].current = None
        /\ (last.arg = p[2] /\ last.arg # p[1]) =>
              q = <<p[1], last.arg>> /\ mods[last.h].current = None
    /\ last.op = "apply_negative" =>
        LET p == last.pre.modifier_negative
            q == mods[last.h].modifier_negative
            m == -Abs(last.arg) IN
        /\ m = p[1] => q = <<m, p[1]>> /\ mods[last.h].current = None
        /\ (m = p[2] /\ m # p[1]) =>
              q = <<p[1], m>> /\ mods[last.h].current = None

\* a tie with the top slot, on a populated cache, that overwrote the other slot
C9_Witness ==
    /\ last.op = "apply_positive"
    /\ last.arg = last.pre.modifier_positive[1]
    /\ last.pre.modifier_positive[2] < last.arg
    /\ IsSome(last.pre.current)
    /\ mods[last.h].modifier_positive = <<last.arg, last.arg>>

------------------------------------------------------------------------------
(* Properties of AbilityModel over shared modifiers *)

ModelHandles(k) ==
    {k.ability1} \cup (IF IsSome(k.ability2) THEN {Unwrap(k.ability2)} ELSE {})

\* the handles AbilityModel::value reads under rule k.model_type
BlendHandles(k) == IF k.model_type = "Single" THEN {k.ability1} ELSE ModelHandles(k)

\* the blend rule of a model over the totals of the slots as they are now
BlendOfTotals(k) ==
    LET v1 == Total(mods[k.ability1]) IN
    CASE k.model_type = "Single" -> v1
      [] k.model_type = "Equal" ->
            LET s == v1 + Total(mods[Unwrap(k.ability2)])
            IN IF s >= 0 THEN s \div 2 ELSE -((-s) \div 2)
      [] k.model_type = "WeigthedOnPrior" ->
            LET s == v1 * 2 + Total(mods[Unwrap(k.ability2)])
            IN IF s >= 0 THEN s \div 3 ELSE -((-s) \div 3)

\* C2: whatever was cached before, the value a model's value() returns is its
\* blend rule over the current totals of its modifiers: a change made through
\* a shared handle is seen by the next value() of every model that reads it.
C2_SharedVisibility ==
    (last.op = "model_value" /\ ~last.ret.panic) =>
        last.ret.val = BlendOfTotals(last.model)

\* two models read one modifier; its total was cached, then apply_* changed a
\* slot, and the next value() of a blending model returned
C2_Witness ==
    /\ last.op = "model_value" /\ ~last.ret.panic
    /\ last.model.model_type # "Single"
    /\ \E h \in last.staleRead : \E k \in models \ {last.model} : h \in BlendHandles(k)
    /\ \E h \in last.staleRead : Total(mods[h]) # mods[h].ability.value

C4_EndToEnd ==
    LET defender == [model_type |-> "Equal", ability1 |-> 1, ability2 |-> None]
        attacker == [model_type |-> "Single", ability1 |-> 2, ability2 |-> None]
        scenario == /\ mods[1].ability = Ability("Stamina", 100)
                    /\ mods[2].ability = Ability("Intelligence", 300)
                    /\ TotalApplied = 0
    IN
    /\ ( /\ scenario /\ last.op = "new"
         /\ last.model_type = "Equal" /\ last.ability1 = 1 /\ last.ability2 = None )
       => last.ret = Ok(defender) /\ defender \in models
    /\ ( /\ scenario /\ last.op = "model_value" /\ last.model = defender )
       => last.ret = Returned(100)
    /\ ( /\ scenario /\ last.op \in {"damage_from_enemy", "damage_to_enemy"}
         /\ last.effect = new_damage("damage1", f32(2000), 150)
         /\ last.attacker_model = defender /\ last.defender_model = attacker )
       => last.ret = Returned(f32(1))

\* C5: AbilityModel::value() of a constructed model always returns a number.
C5_ValueTotal ==
    last.op = "model_value" => /\ last.model \in models
                               /\ ~last.ret.panic

\* C10 as stated: the value of an Equal model is the floor of (v1 + v2) / 2.
C10_EqualIsFloor ==
    (last.op = "model_value" /\ ~last.ret.panic /\ last.model.model_type = "Equal") =>
        last.ret.val = (Total(mods[last.model.ability1])
                        + Total(mods[Unwrap(last.model.ability2)])) \div 2

\* C10 amended: the value of an Equal model is (v1 + v2) / 2 rounded toward
\* zero: the floor when v1 + v2 >= 0 (101 and 100 give 100), the ceiling when
\* v1 + v2 < 0 (-101 and 100 give 0).
C10_EqualTruncates ==
    (last.op = "model_value" /\ ~last.ret.panic /\ last.model.model_type = "Equal") =>
        LET s == Total(mods[last.model.ability1])
                 + Total(mods[Unwrap(last.model.ability2)])
            v == last.ret.val
        IN /\ s >= 0 => v = s \div 2
           /\ s < 0 => v = -((-s) \div 2) /\ 2 * v >= s /\ 2 * v - s <= 1
           /\ ( /\ Total(mods[last.model.ability1]) = 101
                /\ Total(mods[Unwrap(last.model.ability2)]) = 100 ) => v = 100

\* an Equal model over totals with an odd negative sum returned its value
C10_Witness ==
    /\ last.op = "model_value" /\ ~last.ret.panic
    /\ last.model.model_type = "Equal"
    /\ LET s == Total(mods[last.model.ability1])
                + Total(mods[Unwrap(last.model.ability2)])
       IN s < 0 /\ s % 2 = 1 /\ last.ret.val = (s + 1) \div 2

\* C11: the value of a WeigthedOnPrior model is (2*v1 + v2) / 3 under i32
\* division, v1 the current total of the first modifier and v2 that of the
\* second: Stamina(100) with Endurement(160) gives 120, 160 after +60 on the
\* first, 140 after a negative 60 on the second as well.
C11_PriorWeighted ==
    (last.op = "model_value" /\ ~last.ret.panic
        /\ last.model.model_type = "WeigthedOnPrior") =>
        LET v1 == Total(mods[last.model.ability1])
            v2 == Total(mods[Unwrap(last.model.ability2)])
            s == 2 * v1 + v2
            v == last.ret.val
        IN /\ v = IF s >= 0 THEN s \div 3 ELSE -((-s) \div 3)
           /\ (v1 = 100 /\ v2 = 160) => v = 120
           /\ (v1 = 160 /\ v2 = 160) => v = 160
           /\ (v1 = 160 /\ v2 = 100) => v = 140

\* the last assertion of tests::biased_ability: +60 on Stamina, a negative 60
\* on Endurement, and the model of (Stamina, Endurement) is worth 140
C11_Witness ==
    /\ last.op = "model_value"
    /\ last.model = [model_type |-> "WeigthedOnPrior", ability1 |-> 1,
                     ability2 |-> Some(2)]
    /\ applied[1] = [pos |-> SetToBag({60}), neg |-> EmptyBag]
    /\ applied[2] = [pos |-> EmptyBag, neg |-> SetToBag({60})]
    /\ last.staleRead # {}
    /\ last.ret = Returned(140)

------------------------------------------------------------------------------
(* Properties of the curves *)

\* sd <= -border * border_factor, in exact arithmetic
AtOrBelowFloor(c) ==
    c.sd * c.border_factor[2] <= -(c.effect.border) * c.border_factor[1]

f32_lt(x, y) == x[1] * y[2] < y[1] * x[2]

\* C12 as stated: whatever the effect and its border, cause_damage gives
\* exactly 1.0 for every sd <= -border * border_factor.
C12_FloorAnyBorder ==
    (last.op = "cause_damage" /\ AtOrBelowFloor(last)) => last.ret = f32(1)

\* C12 amended: cause_damage gives exactly 1.0 for every sd with
\* sd <= -border * border_factor and sd < border; for border > 0 that is every
\* sd <= -border * border_factor, however far below.
C12_FloorBelowBorder ==
    last.op = "cause_damage" =>
        /\ (AtOrBelowFloor(last) /\ last.sd < last.effect.border) => last.ret = f32(1)
        /\ (AtOrBelowFloor(last) /\ last.effect.border > 0) => last.ret = f32(1)

\* the lowest sd against the smallest positive border, with min and max not 1
C12_Witness ==
    /\ last.op = "cause_damage"
    /\ last.effect.border = 1 /\ last.sd = -MaxSd
    /\ last.border_factor = <<1, 2>>
    /\ last.effect.min = f32(2000) /\ last.effect.max = f32(10000)
    /\ last.ret = f32(1)

\* C13: cause_damage (either border_factor) and cause_effect give exactly max
\* for every sd >= border, whatever else holds of sd.
C13_Saturation ==
    (last.op \in {"cause_damage", "cause_effect"} /\ last.sd >= last.effect.border)
        => last.ret = last.effect.max

\* an sd at or above the border that is also at or below the floor threshold
C13_Witness ==
    /\ last.op = "cause_damage"
    /\ last.sd >= last.effect.border
    /\ AtOrBelowFloor(last)
    /\ last.effect.max = f32(2000) /\ last.effect.min = <<1, 2>>
    /\ last.ret = f32(2000)

\* C14 as stated: cause_damage of any effect that can be constructed never
\* gives less than 1.
C14_NeverBelowOne ==
    last.op = "cause_damage" => f32_le(f32(1), last.ret)

\* C14 amended: for an effect with 1 <= min <= max, cause_damage never gives
\* less than 1, though it may give less than min.
C14_NotBelowOneFromMinOne ==
    ( /\ last.op = "cause_damage"
      /\ f32_le(f32(1), last.effect.min)
      /\ f32_le(last.effect.min, last.effect.max) )
        => f32_le(f32(1), last.ret)

\* a result strictly between 1 and the nominal min
C14_Witness ==
    /\ last.op = "cause_damage"
    /\ f32_le(f32(1), last.effect.min)
    /\ f32_le(last.effect.min, last.effect.max)
    /\ f32_lt(f32(1), last.ret)
    /\ f32_lt(last.ret, last.effect.min)

------------------------------------------------------------------------------
(* Reads and rejected modifiers *)

\* C15: a value() call that directly follows a value() call on the same
\* modifier returns the same value and leaves every modifier as it was.
C15_ReadIdempotent ==
    [][ (last.op = "value" /\ last'.op = "value" /\ last'.h = last.h)
            => (last'.val = last.val /\ mods' = mods) ]_vars

\* the second of two consecutive value() calls, on a modifier with modifiers applied
C15_Witness ==
    /\ last.op = "value" /\ last.again
    /\ IsSome(last.pre.current)
    /\ last.val = Unwrap(last.pre.current)
    /\ mods[last.h] = last.pre
    /\ mods[last.h].modifier_positive # <<0, 0>>
    /\ mods[last.h].modifier_negative # <<0, 0>>

\* C16: apply_positive(a) with a below both positive slots, and apply_negative(a)
\* with the sign-normalized a above both negative slots, leave the modifier as
\* it was: the four slots and the cached total.
C16_RejectedIsNoOp ==
    /\ ( /\ last.op = "apply_positive"
         /\ last.arg < last.pre.modifier_positive[1]
         /\ last.arg < last.pre.modifier_positive[2] )
       => mods[last.h] = last.pre
    /\ ( /\ last.op = "apply_negative"
         /\ -Abs(last.arg) > last.pre.modifier_negative[1]
         /\ -Abs(last.arg) > last.pre.modifier_negative[2] )
       => mods[last.h] = last.pre

\* a rejected apply_positive on a modifier whose total is cached
C16_Witness ==
    /\ last.op = "apply_positive"
    /\ last.arg > 0
    /\ last.arg < last.pre.modifier_positive[2]
    /\ IsSome(last.pre.current)
    /\ mods[last.h].current = last.pre.current
    /\ mods[last.h].modifier_positive = last.pre.modifier_positive

------------------------------------------------------------------------------
(* What each call leaves alone *)

\* the modifier but for its cache
WithoutCache(m) == [m EXCEPT !.current = None]

\* C17: apply_positive leaves modifier_negative, apply_negative leaves
\* modifier_positive, neither touches the Ability; the two value() calls change
\* nothing but `current` of the modifiers they read; no call changes another
\* modifier, and none changes a model.
C17_Frame ==
    [][ /\ last'.op = "apply_positive" =>
            /\ mods'[last'.h].modifier_negative = mods[last'.h].modifier_negative
            /\ mods'[last'.h].ability = mods[last'.h].ability
            /\ \A g \in Handles \ {last'.h} : mods'[g] = mods[g]
        /\ last'.op = "apply_negative" =>
            /\ mods'[last'.h].modifier_positive = mods[last'.h].modifier_positive
            /\ mods'[last'.h].ability = mods[last'.h].ability
            /\ \A g \in Handles \ {last'.h} : mods'[g] = mods[g]
        /\ last'.op = "value" =>
            /\ WithoutCache(mods'[last'.h]) = WithoutCache(mods[last'.h])
            /\ \A g \in Handles \ {last'.h} : mods'[g] = mods[g]
        /\ last'.op = "model_value" =>
            /\ \A g \in Handles : WithoutCache(mods'[g]) = WithoutCache(mods[g])
            /\ \A g \in Handles \ BlendHandles(last'.model) : mods'[g] = mods[g]
        /\ last'.op \in {"apply_positive", "apply_negative", "value", "model_value"}
            => models' = models
      ]_vars

\* a Single model that holds a second modifier was read after modifiers were
\* applied to that second one: its cache stayed empty, its slots stayed
C17_Witness ==
    /\ last.op = "model_value" /\ ~last.ret.panic
    /\ last.model.model_type = "Single"
    /\ IsSome(last.model.ability2)
    /\ Unwrap(last.model.ability2) # last.model.ability1
    /\ mods[Unwrap(last.model.ability2)].current = None
    /\ mods[Unwrap(last.model.ability2)].modifier_negative # <<0, 0>>
    /\ IsSome(mods[last.model.ability1].current)

------------------------------------------------------------------------------
(* Overflow *)

ArithmeticOps ==
    {"value", "model_value", "damage_from_enemy", "damage_to_enemy", "effect_attack"}

\* C18: for 32-bit signed ability values and modifiers, no result of the
\* arithmetic of AbilityModifier::value, of the blends of AbilityModel::value
\* and of attacker.value() - defender.value() leaves the i32 range, so these
\* operations never fail and never wrap.
C18_NoOverflow ==
    last.op \in ArithmeticOps => ~last.overflow

====
